---- MODULE Spec2Model ----
(***************************************************************************)
(* Customer-service agent of vvkumar2/customer_service_agent.               *)
(*                                                                         *)
(*   business_logic/refund_processor.py   the refund rule engine            *)
(*   business_logic/order_manager.py      the shipping and order rules      *)
(*   tools.py                             the tool wrappers and registry    *)
(*   agent.py                             the decision loop and its callers *)
(*                                                                         *)
(* Money is counted in cents (200.00 dollars is 20000), so that the        *)
(* comparisons of the rule engine are integer comparisons.  A formatted    *)
(* string is the record of its template and of the values put into it.     *)
(***************************************************************************)
EXTENDS Integers, Sequences, FiniteSets, TLC

VARIABLES
    env_channel_id,     \* os.environ: SLACK_ESCALATION_CHANNEL_ID, or Unset
    env_slack_creds,    \* os.environ: SLACK_BOT_TOKEN and SLACK_TEAM_ID are both set
    oracle,             \* per request: the scripted reasoning oracle behind llm.ainvoke
    pending_approvals,  \* tools.refund_processor.pending_approvals (module global)
    refund_call,        \* the latest call of process_refund_request, on the engine or the tool
    direct_call,        \* the latest direct call of an OrderManager method or of a tool
    request,            \* per request: what the caller handed in
    pc,                 \* per request: position in async_main / handle_message / the loop
    tool_map,           \* per request: names of the tools of _run_agent_loop's tool_map
    messages,           \* per request: the transcript, _run_agent_loop's messages
    called_tools,       \* per request: _run_agent_loop's called_tools
    iteration,          \* per request: rounds of the for loop completed
    oracle_calls,       \* per request: llm_with_tools.ainvoke calls started
    tool_calls,         \* per request: response.tool_calls of the current round
    call_idx,           \* per request: index in tool_calls of the call being dispatched
    loop_result,        \* per request: what _run_agent_loop returned or raised
    hm_result,          \* per request: what handle_message returned or raised
    stdout              \* per request: what async_main printed, and its exit status

vars == <<env_channel_id, env_slack_creds, oracle, pending_approvals, refund_call,
          direct_call, request, pc, tool_map, messages, called_tools, iteration, oracle_calls,
          tool_calls, call_idx, loop_result, hm_result, stdout>>

loop_vars == <<env_channel_id, env_slack_creds, oracle, request, pc, tool_map,
               messages, called_tools, iteration, oracle_calls, tool_calls,
               call_idx, loop_result, hm_result, stdout>>

\* ------------------------------------------------------------------ bounds

\* Longest script of tool-call responses a scripted oracle is given.
MaxScriptLen == 2
\* Direct calls of process_refund_request made on one RefundProcessor.
MaxRefundCalls == 2
\* Direct calls of the methods of OrderManager and of the tools of tools.py.
MaxDirectCalls == 2

\* ------------------------------------------------- formatted strings

\* An f-string: the template and the values interpolated into it.
Str(fmt, s1, s2, n) == [fmt |-> fmt, s1 |-> s1, s2 |-> s2, n |-> n]
Lit(text) == Str(text, "", "", 0)

\* str.lower() on the names the callers pass: the tier, shipping speed and order
\* status names in three spellings; any other string of the model is lower case.
lower(s) ==
    CASE s \in {"standard", "Standard", "STANDARD"} -> "standard"
      [] s \in {"gold", "Gold", "GOLD"} -> "gold"
      [] s \in {"platinum", "Platinum", "PLATINUM"} -> "platinum"
      [] s \in {"expedited", "Expedited", "EXPEDITED"} -> "expedited"
      [] s \in {"express", "Express", "EXPRESS"} -> "express"
      [] s \in {"pending", "Pending", "PENDING"} -> "pending"
      [] s \in {"processing", "Processing", "PROCESSING"} -> "processing"
      [] s \in {"shipped", "Shipped", "SHIPPED"} -> "shipped"
      [] s \in {"delivered", "Delivered", "DELIVERED"} -> "delivered"
      [] s \in {"cancelled", "Cancelled", "CANCELLED"} -> "cancelled"
      [] OTHER -> s

\* ---------------------------------- business_logic/refund_processor.py

CustomerTier == {"STANDARD", "GOLD", "PLATINUM"}
RefundStatus == {"APPROVED", "DENIED", "PENDING_REVIEW"}

STANDARD_REFUND_WINDOW_DAYS == 30
GOLD_REFUND_WINDOW_DAYS == 60
PLATINUM_REFUND_WINDOW_DAYS == 90

\* 200.00 and 1000.00 dollars, in cents.
MAX_REFUND_WITHOUT_APPROVAL == 20000
MAX_REFUND_WITH_MANAGER_APPROVAL == 100000

\* The outcome of a method of RefundProcessor: the exception it raised ("" when it
\* returned), the value it returned, and self.pending_approvals afterwards.
Returned(self, value) == [raised |-> "", value |-> value, pending_approvals |-> self]
Raised(self, error) == [raised |-> error, value |-> "", pending_approvals |-> self]

\* A slip of _is_within_refund_window: the last day of the window is left out.
_is_within_refund_window_exclusive(customer_tier, days_since_delivery) ==
    IF customer_tier = "PLATINUM"
    THEN days_since_delivery < PLATINUM_REFUND_WINDOW_DAYS
    ELSE IF customer_tier = "GOLD"
    THEN days_since_delivery < GOLD_REFUND_WINDOW_DAYS
    ELSE days_since_delivery < STANDARD_REFUND_WINDOW_DAYS

_is_within_refund_window(customer_tier, days_since_delivery) ==
    IF customer_tier = "PLATINUM"
    THEN days_since_delivery <= PLATINUM_REFUND_WINDOW_DAYS
    ELSE IF customer_tier = "GOLD"
    THEN days_since_delivery <= GOLD_REFUND_WINDOW_DAYS
    ELSE days_since_delivery <= STANDARD_REFUND_WINDOW_DAYS

\* A slip of _request_manager_approval: the record is put at the head of the list.
_request_manager_approval_prepend(self, order_id, amount) ==
    Returned(<<[order_id |-> order_id, amount |-> amount,
                approval_level |-> "manager"]>> \o self,
             "PENDING_REVIEW")

_request_manager_approval(self, order_id, amount) ==
    Returned(Append(self, [order_id |-> order_id, amount |-> amount,
                           approval_level |-> "manager"]),
             "PENDING_REVIEW")

_request_executive_approval(self, order_id, amount) ==
    Returned(Append(self, [order_id |-> order_id, amount |-> amount,
                           approval_level |-> "executive"]),
             "PENDING_REVIEW")

\* A slip of process_refund_request: the refund window is checked before the
\* damaged-item case.
process_refund_request_window_first(self, order_id, customer_tier, order_total, days_since_delivery, is_damaged) ==
    IF order_total < 0 THEN Raised(self, "Order total must be non-negative")
    ELSE IF days_since_delivery < 0
    THEN Raised(self, "Days since delivery must be non-negative")
    ELSE IF ~_is_within_refund_window(customer_tier, days_since_delivery)
    THEN Returned(self, "DENIED")
    ELSE IF is_damaged THEN Returned(self, "APPROVED")
    ELSE IF order_total <= MAX_REFUND_WITHOUT_APPROVAL THEN Returned(self, "APPROVED")
    ELSE IF order_total <= MAX_REFUND_WITH_MANAGER_APPROVAL
    THEN _request_manager_approval(self, order_id, order_total)
    ELSE _request_executive_approval(self, order_id, order_total)

\* A slip of process_refund_request: the damaged-item case is decided before the
\* arguments are validated.
process_refund_request_damaged_first(self, order_id, customer_tier, order_total, days_since_delivery, is_damaged) ==
    IF is_damaged THEN Returned(self, "APPROVED")
    ELSE IF order_total < 0 THEN Raised(self, "Order total must be non-negative")
    ELSE IF days_since_delivery < 0
    THEN Raised(self, "Days since delivery must be non-negative")
    ELSE IF ~_is_within_refund_window(customer_tier, days_since_delivery)
    THEN Returned(self, "DENIED")
    ELSE IF order_total <= MAX_REFUND_WITHOUT_APPROVAL THEN Returned(self, "APPROVED")
    ELSE IF order_total <= MAX_REFUND_WITH_MANAGER_APPROVAL
    THEN _request_manager_approval(self, order_id, order_total)
    ELSE _request_executive_approval(self, order_id, order_total)

\* A slip of process_refund_request: the amounts 200.00 and 1000.00 fall in the
\* upper band.
process_refund_request_bands_exclusive(self, order_id, customer_tier, order_total, days_since_delivery, is_damaged) ==
    IF order_total < 0 THEN Raised(self, "Order total must be non-negative")
    ELSE IF days_since_delivery < 0
    THEN Raised(self, "Days since delivery must be non-negative")
    ELSE IF is_damaged THEN Returned(self, "APPROVED")
    ELSE IF ~_is_within_refund_window(customer_tier, days_since_delivery)
    THEN Returned(self, "DENIED")
    ELSE IF order_total < MAX_REFUND_WITHOUT_APPROVAL THEN Returned(self, "APPROVED")
    ELSE IF order_total < MAX_REFUND_WITH_MANAGER_APPROVAL
    THEN _request_manager_approval(self, order_id, order_total)
    ELSE _request_executive_approval(self, order_id, order_total)

process_refund_request(self, order_id, customer_tier, order_total, days_since_delivery, is_damaged) ==
    IF order_total < 0 THEN Raised(self, "Order total must be non-negative")
    ELSE IF days_since_delivery < 0
    THEN Raised(self, "Days since delivery must be non-negative")
    ELSE IF is_damaged THEN Returned(self, "APPROVED")
    ELSE IF ~_is_within_refund_window(customer_tier, days_since_delivery)
    THEN Returned(self, "DENIED")
    ELSE IF order_total <= MAX_REFUND_WITHOUT_APPROVAL THEN Returned(self, "APPROVED")
    ELSE IF order_total <= MAX_REFUND_WITH_MANAGER_APPROVAL
    THEN _request_manager_approval(self, order_id, order_total)
    ELSE _request_executive_approval(self, order_id, order_total)

get_refund_window_for_tier(customer_tier) ==
    IF customer_tier = "PLATINUM" THEN PLATINUM_REFUND_WINDOW_DAYS
    ELSE IF customer_tier = "GOLD" THEN GOLD_REFUND_WINDOW_DAYS
    ELSE STANDARD_REFUND_WINDOW_DAYS

\* ------------------------------------- business_logic/order_manager.py

OrderStatus == {"PENDING", "PROCESSING", "SHIPPED", "DELIVERED", "CANCELLED"}
ShippingSpeed == {"STANDARD", "EXPEDITED", "EXPRESS"}

\* 5.99, 12.99, 24.99 and 50.00 dollars, in cents.
STANDARD_SHIPPING_COST == 599
EXPEDITED_SHIPPING_COST == 1299
EXPRESS_SHIPPING_COST == 2499
FREE_SHIPPING_THRESHOLD == 5000

\* The outcome of a method of OrderManager: the exception it raised ("" when it
\* returned) and the value it returned.
OrderReturned(value) == [raised |-> "", value |-> value]
OrderRaised(error) == [raised |-> error]

\* A slip of get_shipping_cost: an order of exactly 50.00 dollars pays for
\* standard shipping.
get_shipping_cost_threshold_exclusive(order_total, shipping_speed, customer_tier) ==
    IF order_total < 0 THEN OrderRaised("Order total cannot be negative")
    ELSE IF order_total > FREE_SHIPPING_THRESHOLD /\ shipping_speed = "STANDARD"
    THEN OrderReturned(0)
    ELSE IF lower(customer_tier) = "platinum" THEN OrderReturned(0)
    ELSE IF lower(customer_tier) = "gold" /\ shipping_speed # "EXPRESS"
    THEN OrderReturned(0)
    ELSE IF shipping_speed = "EXPRESS" THEN OrderReturned(EXPRESS_SHIPPING_COST)
    ELSE IF shipping_speed = "EXPEDITED" THEN OrderReturned(EXPEDITED_SHIPPING_COST)
    ELSE OrderReturned(STANDARD_SHIPPING_COST)

\* customer_tier is a string here, compared after .lower().
get_shipping_cost(order_total, shipping_speed, customer_tier) ==
    IF order_total < 0 THEN OrderRaised("Order total cannot be negative")
    ELSE IF order_total >= FREE_SHIPPING_THRESHOLD /\ shipping_speed = "STANDARD"
    THEN OrderReturned(0)
    ELSE IF lower(customer_tier) = "platinum" THEN OrderReturned(0)
    ELSE IF lower(customer_tier) = "gold" /\ shipping_speed # "EXPRESS"
    THEN OrderReturned(0)
    ELSE IF shipping_speed = "EXPRESS" THEN OrderReturned(EXPRESS_SHIPPING_COST)
    ELSE IF shipping_speed = "EXPEDITED" THEN OrderReturned(EXPEDITED_SHIPPING_COST)
    ELSE OrderReturned(STANDARD_SHIPPING_COST)

\* A slip of can_cancel_order: an order can be cancelled until it is delivered.
can_cancel_order_until_delivered(order_status) ==
    OrderReturned(order_status \in {"PENDING", "PROCESSING", "SHIPPED"})

can_cancel_order(order_status) ==
    IF order_status \in {"PENDING", "PROCESSING"}
    THEN OrderReturned(TRUE) ELSE OrderReturned(FALSE)

can_modify_order(order_status) == OrderReturned(order_status = "PENDING")

get_delivery_estimate(shipping_speed) ==
    IF shipping_speed = "EXPRESS" THEN OrderReturned("1 business day")
    ELSE IF shipping_speed = "EXPEDITED" THEN OrderReturned("2-3 business days")
    ELSE OrderReturned("5-7 business days")

\* ------------------------------------------------------------- tools.py

\* The dict lookup of the tools: {...}.get(customer_tier.lower(), CustomerTier.STANDARD).
tier_enum(customer_tier) ==
    CASE lower(customer_tier) = "standard" -> "STANDARD"
      [] lower(customer_tier) = "gold" -> "GOLD"
      [] lower(customer_tier) = "platinum" -> "PLATINUM"
      [] OTHER -> "STANDARD"

\* The outcome of awaiting a tool: the exception raised ("" when it returned), the
\* string returned, and refund_processor.pending_approvals afterwards.
ToolReturned(text, pa) == [raised |-> "", text |-> text, pending_approvals |-> pa]
ToolRaised(error, pa) == [raised |-> error, text |-> Lit(""), pending_approvals |-> pa]

\* A slip of the tool: the status of the decision is left out of the result text.
process_refund_request_tool_no_status(pa, args) ==
    LET r == process_refund_request(pa, args.order_id, tier_enum(args.customer_tier),
                                    args.order_total, args.days_since_delivery,
                                    args.is_damaged)
    IN  IF r.raised # ""
        THEN ToolReturned(Str("Error processing refund: {}", r.raised, "", 0),
                          r.pending_approvals)
        ELSE ToolReturned(Str("Refund Request Result: Status {} Order {} Amount {}",
                              "UNKNOWN", args.order_id, args.order_total),
                          r.pending_approvals)

\* The tool process_refund_request of tools.py.
process_refund_request_tool(pa, args) ==
    LET r == process_refund_request(pa, args.order_id, tier_enum(args.customer_tier),
                                    args.order_total, args.days_since_delivery,
                                    args.is_damaged)
    IN  IF r.raised # ""
        THEN ToolReturned(Str("Error processing refund: {}", r.raised, "", 0),
                          r.pending_approvals)
        ELSE ToolReturned(Str("Refund Request Result: Status {} Order {} Amount {}",
                              r.value, args.order_id, args.order_total),
                          r.pending_approvals)

\* str.upper() and str.capitalize() on the strings the tools format.
upper(s) ==
    CASE lower(s) = "standard" -> "STANDARD"
      [] lower(s) = "gold" -> "GOLD"
      [] lower(s) = "platinum" -> "PLATINUM"
      [] s = "vip" -> "VIP"
      [] OTHER -> s

capitalize(s) ==
    CASE s = "standard" -> "Standard"
      [] s = "expedited" -> "Expedited"
      [] s = "express" -> "Express"
      [] s = "overnight" -> "Overnight"
      [] OTHER -> s

\* The f-string form of a bool.
str_bool(b) == IF b THEN "True" ELSE "False"

\* The dict lookups of the shipping and order tools: .get(key, default), and for
\* get_delivery_estimate .get(key), which gives None for a missing key.
speed_enum(shipping_speed) ==
    CASE lower(shipping_speed) = "standard" -> "STANDARD"
      [] lower(shipping_speed) = "expedited" -> "EXPEDITED"
      [] lower(shipping_speed) = "express" -> "EXPRESS"
      [] OTHER -> "STANDARD"

status_enum(order_status) ==
    CASE lower(order_status) = "pending" -> "PENDING"
      [] lower(order_status) = "processing" -> "PROCESSING"
      [] lower(order_status) = "shipped" -> "SHIPPED"
      [] lower(order_status) = "delivered" -> "DELIVERED"
      [] lower(order_status) = "cancelled" -> "CANCELLED"
      [] OTHER -> "SHIPPED"

speed_map_get(shipping_speed) ==
    CASE lower(shipping_speed) = "standard" -> "STANDARD"
      [] lower(shipping_speed) = "expedited" -> "EXPEDITED"
      [] lower(shipping_speed) = "express" -> "EXPRESS"
      [] OTHER -> "None"

\* The tool get_refund_window of tools.py.
get_refund_window(pa, args) ==
    ToolReturned(Str("{} tier customers have a {}-day refund window.",
                     upper(args.customer_tier), "",
                     get_refund_window_for_tier(tier_enum(args.customer_tier))), pa)

\* The tool calculate_shipping_cost of tools.py.
calculate_shipping_cost(pa, args) ==
    LET cost == get_shipping_cost(args.order_total, speed_enum(args.shipping_speed),
                                  lower(args.customer_tier))
    IN  IF cost.raised # ""
        THEN ToolReturned(Str("Error calculating shipping: {}", cost.raised, "", 0), pa)
        ELSE IF cost.value = 0
        THEN ToolReturned(Str("Free {} shipping for this order.",
                              lower(args.shipping_speed), "", 0), pa)
        ELSE ToolReturned(Str("{} shipping costs ${}",
                              capitalize(lower(args.shipping_speed)), "", cost.value), pa)

\* The tools check_can_cancel_order and check_can_modify_order of tools.py.
check_can_cancel_order(pa, args) ==
    ToolReturned(Str("Order can be cancelled: {}",
                     str_bool(can_cancel_order(status_enum(args.order_status)).value),
                     "", 0), pa)

check_can_modify_order(pa, args) ==
    ToolReturned(Str("Order can be modified: {}",
                     str_bool(can_modify_order(status_enum(args.order_status)).value),
                     "", 0), pa)

\* The tool get_delivery_estimate of tools.py.
get_delivery_estimate_tool(pa, args) ==
    IF speed_map_get(args.shipping_speed) = "None"
    THEN ToolReturned(Str("Invalid shipping speed: '{}'. Valid options are: {}",
                          args.shipping_speed, "standard, expedited, express", 0), pa)
    ELSE ToolReturned(Str("Estimated delivery time for {}: {}",
                          lower(args.shipping_speed),
                          get_delivery_estimate(speed_map_get(args.shipping_speed)).value,
                          0), pa)

\* The orders table as seed_sample_data leaves it: id -> (customer, price in cents,
\* status, days since delivery).  Two of the eight seeded rows are kept.
OrdersTable ==
    [o \in {"ORD-001", "ORD-002"} |->
        IF o = "ORD-001"
        THEN [customer_id |-> "CUST-001", price |-> 7500, status |-> "delivered",
              delivered_date_days_ago |-> 5]
        ELSE [customer_id |-> "CUST-002", price |-> 25000, status |-> "delivered",
              delivered_date_days_ago |-> 35]]

\* The tool lookup_order of tools.py.
lookup_order(pa, args) ==
    IF args.order_id \notin DOMAIN OrdersTable
    THEN ToolReturned(Str("Order {} not found in system.", args.order_id, "", 0), pa)
    ELSE ToolReturned(Str("Order Details: ID {} Status {} Amount {}", args.order_id,
                          OrdersTable[args.order_id].status,
                          OrdersTable[args.order_id].price), pa)

\* get_tools(): the names of the local tools.
get_tools ==
    {"lookup_order", "get_customer_orders", "lookup_customer", "process_refund_request",
     "get_refund_window", "calculate_shipping_cost", "check_can_cancel_order",
     "check_can_modify_order", "get_delivery_estimate"}

\* The escalation tool the Slack MCP server supplies (load_mcp_tools).
EscalationTool == "slack_post_message"
slack_tools == {EscalationTool}

\* ------------------------------------------------ the reasoning oracle

\* The requests in flight: one process serves request 1 (async_main); a host that
\* calls handle_message itself may run requests 1 and 2 concurrently.
Req == {1, 2}

\* How the world answers a tool invocation: "ok" (the tool runs), "raise" (the
\* invocation raises: argument validation, database or network failure), "stall"
\* (the awaited call never completes).
ToolEnv == {"ok", "raise", "stall"}

RefundArgs(order_id, customer_tier, order_total, days_since_delivery, is_damaged) ==
    [order_id |-> order_id, customer_tier |-> customer_tier,
     order_total |-> order_total, days_since_delivery |-> days_since_delivery,
     is_damaged |-> is_damaged]

\* The tool calls a scripted oracle may request, each with the way the world
\* answers it.
RefundPendingCall ==
    [name |-> "process_refund_request",
     args |-> RefundArgs("ORD-500", "standard", 50000, 10, FALSE), env |-> "ok"]
RefundApprovedCall ==
    [name |-> "process_refund_request",
     args |-> RefundArgs("ORD-001", "Gold", 7500, 5, FALSE), env |-> "ok"]
EscalateCall(env) ==
    [name |-> EscalationTool,
     args |-> [channel_id |-> "C0ESCALATE", text |-> "Refund Escalation"], env |-> env]
LookupCall(env) ==
    [name |-> "lookup_order", args |-> [order_id |-> "ORD-001"], env |-> env]
UnknownCall ==
    [name |-> "issue_store_credit", args |-> [order_id |-> "ORD-001"], env |-> "ok"]

\* The tool-call lists (response.tool_calls) a scripted oracle may answer with.
ResponseMenu ==
    { <<RefundPendingCall>>, <<RefundApprovedCall>>, <<EscalateCall("ok")>>,
      <<EscalateCall("stall")>>, <<UnknownCall>>, <<LookupCall("ok")>>,
      <<RefundPendingCall, EscalateCall("ok")>>,
      <<EscalateCall("raise"), RefundPendingCall>>,
      <<LookupCall("raise"), UnknownCall, LookupCall("ok")>> }

Scripts == UNION {[1..k -> ResponseMenu] : k \in 0..MaxScriptLen}

\* A scripted oracle: it answers its n-th call with script[n]; after the script it
\* gives its final answer ("final"), fails ("raise"), or goes through the script
\* again and again ("repeat": it never stops requesting tool calls).
Oracles ==
    {[script |-> s, ending |-> e] :
        s \in Scripts, e \in {"final", "raise", "repeat"}} \
    {[script |-> <<>>, ending |-> "repeat"]}

NoOracle == [script |-> <<>>, ending |-> "final"]

\* response = await llm_with_tools.ainvoke(messages), for the n-th call of a request.
OracleAnswer(o, n) ==
    IF n <= Len(o.script)
    THEN [kind |-> "tools", tool_calls |-> o.script[n], content |-> Lit("")]
    ELSE IF o.ending = "repeat"
    THEN [kind |-> "tools", tool_calls |-> o.script[((n - 1) % Len(o.script)) + 1],
          content |-> Lit("")]
    ELSE IF o.ending = "final"
    THEN [kind |-> "final", tool_calls |-> <<>>,
          content |-> Str("oracle answer of call {}", "", "", n)]
    ELSE [kind |-> "raise", tool_calls |-> <<>>, content |-> Lit("")]

\* The tool_call dicts of the n-th response: name, args and the id the oracle gave.
ToolCallDicts(entries, n) ==
    [k \in 1..Len(entries) |->
        [name |-> entries[k].name, args |-> entries[k].args, id |-> <<n, k>>]]

\* -------------------------------------------------------------- agent.py

max_iterations == 10

Unset == "<unset>"
ChannelIds == {Unset, "", "C0ESCALATE"}

\* What a call gave its caller: nothing yet, a returned (text, tool names), or a
\* raised exception.
NoResult == [state |-> "none", error |-> "", text |-> Lit(""), tools |-> <<>>]
ReturnOf(text, tools) == [state |-> "returned", error |-> "", text |-> text, tools |-> tools]
RaiseOf(error) == [state |-> "raised", error |-> error, text |-> Lit(""), tools |-> <<>>]

TimeoutText ==
    Lit("I apologize, but I took too long to process your request. Please try again.")

\* A slip of _get_slack_system_context: without a channel id it adds nothing to
\* the prompt instead of raising.
_get_slack_system_context_degraded(channel_env) ==
    IF channel_env # Unset /\ channel_env # ""
    THEN [raised |-> "", value |-> channel_env]
    ELSE [raised |-> "", value |-> ""]

\* os.getenv("SLACK_ESCALATION_CHANNEL_ID", ""): the text added to the system
\* prompt, or RuntimeError.
_get_slack_system_context(channel_env) ==
    IF channel_env # Unset /\ channel_env # ""
    THEN [raised |-> "", value |-> channel_env]
    ELSE [raised |-> "Slack integration is not configured", value |-> ""]

SystemMessage(channel) ==
    [type |-> "system",
     content |-> Str("SYSTEM_PROMPT + Slack escalation channel ID: {}", channel, "", 0)]

\* enhanced_message: the message, prefixed by the customer id when the context has one.
HumanMessage(message, context) ==
    [type |-> "human",
     content |-> IF "customer_id" \in DOMAIN context
                 THEN Str("[Customer ID: {}] {}", context.customer_id, message, 0)
                 ELSE Str("{}", message, "", 0)]

AIMessage(dicts) == [type |-> "ai", tool_calls |-> dicts]

\* A slip of the tool-result turn: every result of a round carries the id of the
\* round's first call.
ToolMessage_first_id(content, id) ==
    [type |-> "tool", content |-> content, tool_call_id |-> <<id[1], 1>>]

ToolMessage(content, id) == [type |-> "tool", content |-> content, tool_call_id |-> id]

\* result = await tool.ainvoke(tool_args), for a tool of the registry whose call
\* completes: the world's failure, or what the tool does.
ainvoke(entry, pa) ==
    IF entry.env = "raise" THEN ToolRaised("tool invocation failed", pa)
    ELSE CASE entry.name = "process_refund_request" ->
                  process_refund_request_tool(pa, entry.args)
           [] entry.name = "lookup_order" -> lookup_order(pa, entry.args)
           [] entry.name = EscalationTool ->
                  ToolReturned(Str("message posted to {}", entry.args.channel_id, "", 0), pa)

\* The awaited call never completes: only a tool that is invoked can stall.
Stalls(entry, tm) == entry.name \in tm /\ entry.env = "stall"

\* A slip of _execute_tool: no try/except around the invocation, the tool's
\* exception leaves _execute_tool.
_execute_tool_unguarded(entry, tm, pa) ==
    IF entry.name \notin tm
    THEN ToolReturned(Str("Tool {} not found", entry.name, "", 0), pa)
    ELSE ainvoke(entry, pa)

\* A slip of _execute_tool: a name missing from tool_map is a KeyError.
_execute_tool_keyerror(entry, tm, pa) ==
    IF entry.name \notin tm
    THEN ToolRaised("KeyError", pa)
    ELSE LET o == ainvoke(entry, pa)
         IN  IF o.raised # ""
             THEN ToolReturned(Str("Error calling tool: {}", o.raised, "", 0),
                               o.pending_approvals)
             ELSE o

_execute_tool(entry, tm, pa) ==
    IF entry.name \notin tm
    THEN ToolReturned(Str("Tool {} not found", entry.name, "", 0), pa)
    ELSE LET o == ainvoke(entry, pa)
         IN  IF o.raised # ""
             THEN ToolReturned(Str("Error calling tool: {}", o.raised, "", 0),
                               o.pending_approvals)
             ELSE o

\* The try/except of the dispatch loop around _execute_tool: the content of the
\* ToolMessage appended for the call.
ToolMessageContent(o) ==
    IF o.raised # "" THEN Str("Error: {}", o.raised, "", 0) ELSE o.text

\* A slip of the loop bound: one iteration too many.
range_has_next_inclusive(i) == i <= max_iterations

\* for iteration in range(max_iterations): another iteration is left.
range_has_next(i) == i < max_iterations

\* A slip of called_tools.append(tool_name): a name is recorded once only.
record_call_once(called, tool_name) ==
    IF \E i \in DOMAIN called : called[i] = tool_name
    THEN called
    ELSE Append(called, tool_name)

\* called_tools.append(tool_name)
record_call(called, tool_name) == Append(called, tool_name)

\* What async_main reads from stdin.
StdinInputs ==
    { [kind |-> "bad_json", message |-> "", context |-> <<>>],
      [kind |-> "ok", message |-> "", context |-> <<>>],
      [kind |-> "ok", message |-> "refund my order", context |-> <<>>],
      [kind |-> "ok", message |-> "refund my order",
       context |-> [customer_id |-> "CUST-001"]] }

NoRequest ==
    [message |-> "", context |-> <<>>, via |-> "none", preloaded |-> FALSE, tools |-> {}]

ApologyFmt == "I apologize, but I'm experiencing technical difficulties: {}"
NoStdout == [text |-> Lit(""), tools |-> <<>>, exit |-> -1]

\* A slip of async_main: no except branch, the exception of handle_message ends
\* the process with a traceback and nothing is printed.
async_main_output_unguarded(hm) ==
    IF hm.state = "raised"
    THEN [text |-> Lit(""), tools |-> <<>>, exit |-> 1]
    ELSE [text |-> hm.text, tools |-> hm.tools, exit |-> 0]

\* async_main after handle_message: print(response, tool_calls), or the except
\* branch: the apology with str(e), and sys.exit(1).
async_main_output(hm) ==
    IF hm.state = "raised"
    THEN [text |-> Str(ApologyFmt, hm.error, "", 0), tools |-> <<>>, exit |-> 1]
    ELSE [text |-> hm.text, tools |-> hm.tools, exit |-> 0]

\* async_main up to its call of handle_message.
AsyncMainRead(r) ==
    /\ pc[r] = "async_main"
    /\ \E inp \in StdinInputs :
          IF inp.kind = "bad_json"
          THEN /\ stdout' = [stdout EXCEPT ![r] =
                     [text |-> Str(ApologyFmt, "JSONDecodeError", "", 0),
                      tools |-> <<>>, exit |-> 1]]
               /\ pc' = [pc EXCEPT ![r] = "exited"]
               /\ UNCHANGED request
          ELSE IF inp.message = ""
          THEN /\ stdout' = [stdout EXCEPT ![r] =
                     [text |-> Lit("I need a message to help you. Could you please provide more details?"),
                      tools |-> <<>>, exit |-> 0]]
               /\ pc' = [pc EXCEPT ![r] = "exited"]
               /\ UNCHANGED request
          ELSE /\ request' = [request EXCEPT ![r] =
                     [message |-> inp.message, context |-> inp.context,
                      via |-> "async_main", preloaded |-> FALSE, tools |-> {}]]
               /\ pc' = [pc EXCEPT ![r] = "handle_message"]
               /\ UNCHANGED stdout
    /\ UNCHANGED <<env_channel_id, env_slack_creds, oracle, pending_approvals,
                   refund_call, direct_call, tool_map, messages, called_tools, iteration,
                   oracle_calls, tool_calls, call_idx, loop_result, hm_result>>

\* handle_message up to its call of _run_agent_loop: the tools handed in, or
\* load_all_tools (get_tools, _get_slack_server_params, the MCP session).
HandleMessage(r) ==
    /\ pc[r] = "handle_message"
    /\ IF request[r].preloaded
       THEN /\ tool_map' = [tool_map EXCEPT ![r] = request[r].tools]
            /\ pc' = [pc EXCEPT ![r] = "loop_init"]
            /\ UNCHANGED hm_result
       ELSE IF ~env_slack_creds
       THEN /\ hm_result' = [hm_result EXCEPT ![r] =
                  RaiseOf("Slack integration is not configured")]
            /\ pc' = [pc EXCEPT ![r] = "hm_done"]
            /\ UNCHANGED tool_map
       ELSE \E mcp_up \in BOOLEAN :
               IF mcp_up
               THEN /\ tool_map' = [tool_map EXCEPT ![r] = get_tools \cup slack_tools]
                    /\ pc' = [pc EXCEPT ![r] = "loop_init"]
                    /\ UNCHANGED hm_result
               ELSE /\ hm_result' = [hm_result EXCEPT ![r] =
                          RaiseOf("MCP session failed")]
                    /\ pc' = [pc EXCEPT ![r] = "hm_done"]
                    /\ UNCHANGED tool_map
    /\ UNCHANGED <<env_channel_id, env_slack_creds, oracle, pending_approvals,
                   refund_call, direct_call, request, messages, called_tools, iteration,
                   oracle_calls, tool_calls, call_idx, loop_result, stdout>>

\* _run_agent_loop up to the for loop: tool_map is built, called_tools is empty,
\* the system prompt gets the Slack context (or RuntimeError), messages holds the
\* system and the human turn.
LoopInit(r) ==
    /\ pc[r] = "loop_init"
    /\ LET ctx == _get_slack_system_context(env_channel_id)
       IN  IF ctx.raised # ""
           THEN /\ loop_result' = [loop_result EXCEPT ![r] = RaiseOf(ctx.raised)]
                /\ pc' = [pc EXCEPT ![r] = "loop_done"]
                /\ UNCHANGED messages
           ELSE /\ messages' = [messages EXCEPT ![r] =
                      <<SystemMessage(ctx.value),
                        HumanMessage(request[r].message, request[r].context)>>]
                /\ pc' = [pc EXCEPT ![r] = "reasoning"]
                /\ UNCHANGED loop_result
    /\ UNCHANGED <<env_channel_id, env_slack_creds, oracle, pending_approvals,
                   refund_call, direct_call, request, tool_map, called_tools, iteration,
                   oracle_calls, tool_calls, call_idx, hm_result, stdout>>

\* One pass of the head of the for loop: the oracle call, and what follows it up
\* to the first tool call of the round.
OracleCall(r) ==
    /\ pc[r] = "reasoning"
    /\ range_has_next(iteration[r])
    /\ LET n == oracle_calls[r] + 1
           response == OracleAnswer(oracle[r], n)
       IN  /\ oracle_calls' = [oracle_calls EXCEPT ![r] = n]
           /\ IF response.kind = "raise"
              THEN /\ loop_result' = [loop_result EXCEPT ![r] = RaiseOf("oracle call failed")]
                   /\ pc' = [pc EXCEPT ![r] = "loop_done"]
                   /\ UNCHANGED <<messages, tool_calls, call_idx>>
              ELSE IF response.tool_calls = <<>>
              THEN /\ loop_result' = [loop_result EXCEPT ![r] =
                         ReturnOf(response.content, called_tools[r])]
                   /\ pc' = [pc EXCEPT ![r] = "loop_done"]
                   /\ UNCHANGED <<messages, tool_calls, call_idx>>
              ELSE /\ messages' = [messages EXCEPT ![r] =
                         Append(@, AIMessage(ToolCallDicts(response.tool_calls, n)))]
                   /\ tool_calls' = [tool_calls EXCEPT ![r] = response.tool_calls]
                   /\ call_idx' = [call_idx EXCEPT ![r] = 1]
                   /\ pc' = [pc EXCEPT ![r] = "dispatching"]
                   /\ UNCHANGED loop_result
    /\ UNCHANGED <<env_channel_id, env_slack_creds, oracle, pending_approvals,
                   refund_call, direct_call, request, tool_map, called_tools, iteration,
                   hm_result, stdout>>

\* The for loop ran out of iterations: the timeout return.
LoopExhausted(r) ==
    /\ pc[r] = "reasoning"
    /\ ~range_has_next(iteration[r])
    /\ loop_result' = [loop_result EXCEPT ![r] = ReturnOf(TimeoutText, called_tools[r])]
    /\ pc' = [pc EXCEPT ![r] = "loop_done"]
    /\ UNCHANGED <<env_channel_id, env_slack_creds, oracle, pending_approvals,
                   refund_call, direct_call, request, tool_map, messages, called_tools, iteration,
                   oracle_calls, tool_calls, call_idx, hm_result, stdout>>

\* The body of the inner for loop up to the await: the name is recorded and
\* _execute_tool is entered.
ToolCallStart(r) ==
    /\ pc[r] = "dispatching"
    /\ called_tools' = [called_tools EXCEPT ![r] =
          record_call(@, tool_calls[r][call_idx[r]].name)]
    /\ pc' = [pc EXCEPT ![r] = "awaiting_tool"]
    /\ UNCHANGED <<env_channel_id, env_slack_creds, oracle, pending_approvals,
                   refund_call, direct_call, request, tool_map, messages, iteration,
                   oracle_calls, tool_calls, call_idx, loop_result, hm_result, stdout>>

\* _execute_tool completes and its ToolMessage is appended; after the last call of
\* the round the for loop goes to its next iteration.  A stalled call never gets here.
ToolCallReturn(r) ==
    /\ pc[r] = "awaiting_tool"
    /\ ~Stalls(tool_calls[r][call_idx[r]], tool_map[r])
    /\ LET entry == tool_calls[r][call_idx[r]]
           o == _execute_tool(entry, tool_map[r], pending_approvals)
       IN  /\ pending_approvals' = o.pending_approvals
           /\ messages' = [messages EXCEPT ![r] =
                 Append(@, ToolMessage(ToolMessageContent(o),
                                       <<oracle_calls[r], call_idx[r]>>))]
    /\ IF call_idx[r] < Len(tool_calls[r])
       THEN /\ call_idx' = [call_idx EXCEPT ![r] = @ + 1]
            /\ pc' = [pc EXCEPT ![r] = "dispatching"]
            /\ UNCHANGED iteration
       ELSE /\ iteration' = [iteration EXCEPT ![r] = @ + 1]
            /\ pc' = [pc EXCEPT ![r] = "reasoning"]
            /\ UNCHANGED call_idx
    /\ UNCHANGED <<env_channel_id, env_slack_creds, oracle, refund_call, direct_call, request,
                   tool_map, called_tools, oracle_calls, tool_calls, loop_result,
                   hm_result, stdout>>

\* handle_message hands on what _run_agent_loop returned or raised (closing the MCP
\* session on the way when it opened one).
HandleMessageReturn(r) ==
    /\ pc[r] = "loop_done"
    /\ hm_result' = [hm_result EXCEPT ![r] = loop_result[r]]
    /\ pc' = [pc EXCEPT ![r] = "hm_done"]
    /\ UNCHANGED <<env_channel_id, env_slack_creds, oracle, pending_approvals,
                   refund_call, direct_call, request, tool_map, messages, called_tools, iteration,
                   oracle_calls, tool_calls, call_idx, loop_result, stdout>>

\* async_main once handle_message has returned or raised.
AsyncMainPrint(r) ==
    /\ pc[r] = "hm_done"
    /\ request[r].via = "async_main"
    /\ stdout' = [stdout EXCEPT ![r] = async_main_output(hm_result[r])]
    /\ pc' = [pc EXCEPT ![r] = "exited"]
    /\ UNCHANGED <<env_channel_id, env_slack_creds, oracle, pending_approvals,
                   refund_call, direct_call, request, tool_map, messages, called_tools, iteration,
                   oracle_calls, tool_calls, call_idx, loop_result, hm_result>>

\* ------------------------------------------------------ specifications

\* No call has been made on the processor.  Of a call the record keeps its number,
\* arguments and outcome, the list before it, whether it was made on the engine or
\* through the tool, and (reviews) the order and amount of every call so far that
\* came back as PENDING_REVIEW.
NoRefundCall ==
    [n |-> 0, args |-> RefundArgs("", "STANDARD", 0, 0, FALSE),
     outcome |-> Returned(<<>>, ""), before |-> <<>>, via |-> "engine",
     reviews |-> <<>>]

\* No method of OrderManager and no tool has been called directly.
NoDirectCall == [n |-> 0, name |-> "", args |-> [none |-> TRUE], outcome |-> [raised |-> ""]]

\* One process: async_main serves request 1; request 2 is never made.
Init ==
    /\ env_channel_id \in ChannelIds
    /\ env_slack_creds \in BOOLEAN
    /\ \E o \in Oracles : oracle = [r \in Req |-> IF r = 1 THEN o ELSE NoOracle]
    /\ pending_approvals = <<>>
    /\ refund_call = NoRefundCall
    /\ direct_call = NoDirectCall
    /\ request = [r \in Req |-> NoRequest]
    /\ pc = [r \in Req |-> IF r = 1 THEN "async_main" ELSE "unused"]
    /\ tool_map = [r \in Req |-> {}]
    /\ messages = [r \in Req |-> <<>>]
    /\ called_tools = [r \in Req |-> <<>>]
    /\ iteration = [r \in Req |-> 0]
    /\ oracle_calls = [r \in Req |-> 0]
    /\ tool_calls = [r \in Req |-> <<>>]
    /\ call_idx = [r \in Req |-> 0]
    /\ loop_result = [r \in Req |-> NoResult]
    /\ hm_result = [r \in Req |-> NoResult]
    /\ stdout = [r \in Req |-> NoStdout]

Next ==
    \E r \in Req :
        \/ AsyncMainRead(r)
        \/ HandleMessage(r)
        \/ LoopInit(r)
        \/ OracleCall(r)
        \/ LoopExhausted(r)
        \/ ToolCallStart(r)
        \/ ToolCallReturn(r)
        \/ HandleMessageReturn(r)
        \/ AsyncMainPrint(r)

Spec == Init /\ [][Next]_vars

\* Direct calls of RefundProcessor.process_refund_request on one processor, with
\* arguments from these sets (amounts in cents: 200.00, 200.01, 1000.00, 1000.01
\* and 1,000,000 dollars).
RefundOrderIds == {"ORD-001", "ORD-002"}
RefundTotals == {-1, 0, 20000, 20001, 100000, 100001, 100000000}
RefundDays == {-1, 0, 30, 31, 60, 61, 90, 91}

RefundInit ==
    /\ env_channel_id = "C0ESCALATE"
    /\ env_slack_creds = TRUE
    /\ oracle = [r \in Req |-> NoOracle]
    /\ pending_approvals = <<>>
    /\ refund_call = NoRefundCall
    /\ direct_call = NoDirectCall
    /\ request = [r \in Req |-> NoRequest]
    /\ pc = [r \in Req |-> "unused"]
    /\ tool_map = [r \in Req |-> {}]
    /\ messages = [r \in Req |-> <<>>]
    /\ called_tools = [r \in Req |-> <<>>]
    /\ iteration = [r \in Req |-> 0]
    /\ oracle_calls = [r \in Req |-> 0]
    /\ tool_calls = [r \in Req |-> <<>>]
    /\ call_idx = [r \in Req |-> 0]
    /\ loop_result = [r \in Req |-> NoResult]
    /\ hm_result = [r \in Req |-> NoResult]
    /\ stdout = [r \in Req |-> NoStdout]

RefundCall ==
    /\ refund_call.n < MaxRefundCalls
    /\ \E order_id \in RefundOrderIds, customer_tier \in CustomerTier,
          order_total \in RefundTotals, days_since_delivery \in RefundDays,
          is_damaged \in BOOLEAN :
          LET o == process_refund_request(pending_approvals, order_id, customer_tier,
                                          order_total, days_since_delivery, is_damaged)
          IN  /\ refund_call' =
                    [n |-> refund_call.n + 1,
                     args |-> RefundArgs(order_id, customer_tier, order_total,
                                         days_since_delivery, is_damaged),
                     outcome |-> o, before |-> pending_approvals, via |-> "engine",
                     reviews |->
                         IF o.raised = "" /\ o.value = "PENDING_REVIEW"
                         THEN Append(refund_call.reviews,
                                     [order_id |-> order_id, amount |-> order_total])
                         ELSE refund_call.reviews]
              /\ pending_approvals' = o.pending_approvals
    /\ UNCHANGED <<loop_vars, direct_call>>

\* The same processor reached through the tool process_refund_request of tools.py,
\* which takes the tier as a string.
RefundToolTiers == {"standard", "Gold", "PLATINUM"}
RefundToolTotals == {-1, 50000}
RefundToolDays == {-1, 10}

RefundToolCall ==
    /\ refund_call.n < MaxRefundCalls
    /\ \E order_id \in RefundOrderIds, customer_tier \in RefundToolTiers,
          order_total \in RefundToolTotals, days_since_delivery \in RefundToolDays,
          is_damaged \in BOOLEAN :
          LET args == RefundArgs(order_id, customer_tier, order_total,
                                 days_since_delivery, is_damaged)
              o == process_refund_request_tool(pending_approvals, args)
          IN  /\ refund_call' =
                    [n |-> refund_call.n + 1, args |-> args, outcome |-> o,
                     before |-> pending_approvals, via |-> "tool",
                     reviews |->
                         IF o.raised = "" /\ o.text.s1 = "PENDING_REVIEW"
                         THEN Append(refund_call.reviews,
                                     [order_id |-> order_id, amount |-> order_total])
                         ELSE refund_call.reviews]
              /\ pending_approvals' = o.pending_approvals
    /\ UNCHANGED <<loop_vars, direct_call>>

RefundNext == RefundCall \/ RefundToolCall

RefundSpec == RefundInit /\ [][RefundNext]_vars

\* A host process that calls handle_message itself, with the tools loaded once,
\* for two requests at the same time; each customer asks about an own order.
ConcOrder(r) == IF r = 1 THEN "ORD-501" ELSE "ORD-502"

ConcRefundCall(r) ==
    [name |-> "process_refund_request",
     args |-> RefundArgs(ConcOrder(r), "standard", 50000, 10, FALSE), env |-> "ok"]

\* The oracle of a concurrent request: one refund, two refunds in one round, or
\* order lookups without end.
ConcOracles(r) ==
    { [script |-> << <<ConcRefundCall(r)>> >>, ending |-> "final"],
      [script |-> << <<ConcRefundCall(r), ConcRefundCall(r)>> >>, ending |-> "final"],
      [script |-> << <<LookupCall("ok")>> >>, ending |-> "repeat"] }

ConcInit ==
    /\ env_channel_id = "C0ESCALATE"
    /\ env_slack_creds = TRUE
    /\ oracle \in [Req -> UNION {ConcOracles(r) : r \in Req}]
    /\ \A r \in Req : oracle[r] \in ConcOracles(r)
    /\ pending_approvals = <<>>
    /\ refund_call = NoRefundCall
    /\ direct_call = NoDirectCall
    /\ request = [r \in Req |->
          [message |-> "refund my order", context |-> [customer_id |-> "CUST-001"],
           via |-> "direct", preloaded |-> TRUE, tools |-> get_tools \cup slack_tools]]
    /\ pc = [r \in Req |-> "handle_message"]
    /\ tool_map = [r \in Req |-> {}]
    /\ messages = [r \in Req |-> <<>>]
    /\ called_tools = [r \in Req |-> <<>>]
    /\ iteration = [r \in Req |-> 0]
    /\ oracle_calls = [r \in Req |-> 0]
    /\ tool_calls = [r \in Req |-> <<>>]
    /\ call_idx = [r \in Req |-> 0]
    /\ loop_result = [r \in Req |-> NoResult]
    /\ hm_result = [r \in Req |-> NoResult]
    /\ stdout = [r \in Req |-> NoStdout]

ConcNext ==
    \E r \in Req :
        \/ HandleMessage(r)
        \/ LoopInit(r)
        \/ OracleCall(r)
        \/ LoopExhausted(r)
        \/ ToolCallStart(r)
        \/ ToolCallReturn(r)
        \/ HandleMessageReturn(r)

ConcSpec == ConcInit /\ [][ConcNext]_vars

\* Direct calls of the methods of one OrderManager, with arguments from these sets
\* (amounts in cents: 49.99, 50.00 and 50.01 dollars).
ShippingTotals == {-1, 0, 4999, 5000, 5001}
ShippingTiers == {"standard", "gold", "GOLD", "platinum"}

DirectInit ==
    /\ env_channel_id = "C0ESCALATE"
    /\ env_slack_creds = TRUE
    /\ oracle = [r \in Req |-> NoOracle]
    /\ pending_approvals = <<>>
    /\ refund_call = NoRefundCall
    /\ direct_call = NoDirectCall
    /\ request = [r \in Req |-> NoRequest]
    /\ pc = [r \in Req |-> "unused"]
    /\ tool_map = [r \in Req |-> {}]
    /\ messages = [r \in Req |-> <<>>]
    /\ called_tools = [r \in Req |-> <<>>]
    /\ iteration = [r \in Req |-> 0]
    /\ oracle_calls = [r \in Req |-> 0]
    /\ tool_calls = [r \in Req |-> <<>>]
    /\ call_idx = [r \in Req |-> 0]
    /\ loop_result = [r \in Req |-> NoResult]
    /\ hm_result = [r \in Req |-> NoResult]
    /\ stdout = [r \in Req |-> NoStdout]

\* The record of a direct call: what was called, with what, and what came back.
DirectCall(name, args, outcome) ==
    [n |-> direct_call.n + 1, name |-> name, args |-> args, outcome |-> outcome]

GetShippingCost ==
    /\ direct_call.n < MaxDirectCalls
    /\ \E order_total \in ShippingTotals, shipping_speed \in ShippingSpeed,
          customer_tier \in ShippingTiers :
          direct_call' =
              DirectCall("OrderManager.get_shipping_cost",
                         [order_total |-> order_total, shipping_speed |-> shipping_speed,
                          customer_tier |-> customer_tier],
                         get_shipping_cost(order_total, shipping_speed, customer_tier))
    /\ UNCHANGED <<loop_vars, pending_approvals, refund_call>>

CanCancelOrder ==
    /\ direct_call.n < MaxDirectCalls
    /\ \E order_status \in OrderStatus :
          direct_call' = DirectCall("OrderManager.can_cancel_order",
                                    [order_status |-> order_status],
                                    can_cancel_order(order_status))
    /\ UNCHANGED <<loop_vars, pending_approvals, refund_call>>

CanModifyOrder ==
    /\ direct_call.n < MaxDirectCalls
    /\ \E order_status \in OrderStatus :
          direct_call' = DirectCall("OrderManager.can_modify_order",
                                    [order_status |-> order_status],
                                    can_modify_order(order_status))
    /\ UNCHANGED <<loop_vars, pending_approvals, refund_call>>

GetDeliveryEstimate ==
    /\ direct_call.n < MaxDirectCalls
    /\ \E shipping_speed \in ShippingSpeed :
          direct_call' = DirectCall("OrderManager.get_delivery_estimate",
                                    [shipping_speed |-> shipping_speed],
                                    get_delivery_estimate(shipping_speed))
    /\ UNCHANGED <<loop_vars, pending_approvals, refund_call>>

\* The tools of tools.py called directly, with the strings a caller may pass: the
\* recognised names in some spelling, and a string that names no tier ("vip"), no
\* shipping speed ("overnight") and no order status ("lost").
TierStrings == {"standard", "Gold", "PLATINUM", "vip"}
SpeedStrings == {"standard", "Expedited", "EXPRESS", "overnight"}
StatusStrings == {"pending", "Processing", "SHIPPED", "delivered", "cancelled", "lost"}
ToolRefundTotals == {7500, 50000}
ToolRefundDays == {10, 45}
ToolShippingTotals == {-1, 4999, 5000}

ProcessRefundRequestTool ==
    /\ direct_call.n < MaxDirectCalls
    /\ \E customer_tier \in TierStrings, order_total \in ToolRefundTotals,
          days_since_delivery \in ToolRefundDays :
          LET args == RefundArgs("ORD-001", customer_tier, order_total,
                                 days_since_delivery, FALSE)
              o == process_refund_request_tool(pending_approvals, args)
          IN  /\ direct_call' = DirectCall("process_refund_request", args, o)
              /\ pending_approvals' = o.pending_approvals
    /\ UNCHANGED <<loop_vars, refund_call>>

GetRefundWindowTool ==
    /\ direct_call.n < MaxDirectCalls
    /\ \E customer_tier \in TierStrings :
          LET args == [customer_tier |-> customer_tier]
          IN  direct_call' = DirectCall("get_refund_window", args,
                                        get_refund_window(pending_approvals, args))
    /\ UNCHANGED <<loop_vars, pending_approvals, refund_call>>

CalculateShippingCostTool ==
    /\ direct_call.n < MaxDirectCalls
    /\ \E order_total \in ToolShippingTotals, shipping_speed \in SpeedStrings,
          customer_tier \in TierStrings :
          LET args == [order_total |-> order_total, shipping_speed |-> shipping_speed,
                       customer_tier |-> customer_tier]
          IN  direct_call' = DirectCall("calculate_shipping_cost", args,
                                        calculate_shipping_cost(pending_approvals, args))
    /\ UNCHANGED <<loop_vars, pending_approvals, refund_call>>

CheckCanCancelOrderTool ==
    /\ direct_call.n < MaxDirectCalls
    /\ \E order_status \in StatusStrings :
          LET args == [order_status |-> order_status]
          IN  direct_call' = DirectCall("check_can_cancel_order", args,
                                        check_can_cancel_order(pending_approvals, args))
    /\ UNCHANGED <<loop_vars, pending_approvals, refund_call>>

CheckCanModifyOrderTool ==
    /\ direct_call.n < MaxDirectCalls
    /\ \E order_status \in StatusStrings :
          LET args == [order_status |-> order_status]
          IN  direct_call' = DirectCall("check_can_modify_order", args,
                                        check_can_modify_order(pending_approvals, args))
    /\ UNCHANGED <<loop_vars, pending_approvals, refund_call>>

GetDeliveryEstimateTool ==
    /\ direct_call.n < MaxDirectCalls
    /\ \E shipping_speed \in SpeedStrings :
          LET args == [shipping_speed |-> shipping_speed]
          IN  direct_call' = DirectCall("get_delivery_estimate", args,
                                        get_delivery_estimate_tool(pending_approvals, args))
    /\ UNCHANGED <<loop_vars, pending_approvals, refund_call>>

DirectNext ==
    \/ GetShippingCost
    \/ CanCancelOrder
    \/ CanModifyOrder
    \/ GetDeliveryEstimate
    \/ ProcessRefundRequestTool
    \/ GetRefundWindowTool
    \/ CalculateShippingCostTool
    \/ CheckCanCancelOrderTool
    \/ CheckCanModifyOrderTool
    \/ GetDeliveryEstimateTool

DirectSpec == DirectInit /\ [][DirectNext]_vars

\* ------------------------------------------------------------- claims

\* The escalation destination is configured.
ChannelConfigured == env_channel_id # Unset /\ env_channel_id # ""

\* The tool calls the oracle of request r requests in its n-th answer.
Requested(r, n) == OracleAnswer(oracle[r], n).tool_calls

\* The names of the tool calls of an oracle's first n answers, in request order.
RECURSIVE NamesOfRounds(_, _)
NamesOfRounds(o, n) ==
    IF n = 0 THEN <<>>
    ELSE LET tc == OracleAnswer(o, n).tool_calls
         IN  NamesOfRounds(o, n - 1) \o [k \in 1..Len(tc) |-> tc[k].name]

\* The transcript of request r holds a tool-result turn for call k of answer n.
Answered(r, n, k) ==
    \E i \in DOMAIN messages[r] :
        messages[r][i].type = "tool" /\ messages[r][i].tool_call_id = <<n, k>>

\* Request r is between rounds, or its loop has returned: no round is under way.
BetweenRounds(r) == pc[r] = "reasoning" \/ loop_result[r].state = "returned"

\* Every call requested so far has its tool-result turn.
AllAnswered(r) ==
    \A n \in 1..oracle_calls[r] : \A k \in 1..Len(Requested(r, n)) : Answered(r, n, k)

\* The only exceptions that leave the loop: the missing channel id, the oracle.
LoopFailures == {"Slack integration is not configured", "oracle call failed"}

\* The loop of request r is under way and is not awaiting a tool call that never
\* completes.
LoopRunning(r) ==
    /\ pc[r] \in {"reasoning", "dispatching", "awaiting_tool"}
    /\ ~(pc[r] = "awaiting_tool" /\ Stalls(tool_calls[r][call_idx[r]], tool_map[r]))

\* C1: with an oracle that requests tool calls in every step, the loop ends after
\* exactly 10 oracle calls with the fixed apology text (a return, not an
\* exception) and the names of the calls of exactly those 10 rounds; for any
\* oracle no 11th oracle call is started; and as long as its tool calls complete
\* the loop can take its next step, so it does end.
C1_IterationBudget ==
    \A r \in Req :
        /\ oracle_calls[r] <= 10
        /\ LoopRunning(r)
           => ENABLED (OracleCall(r) \/ LoopExhausted(r) \/ ToolCallStart(r)
                       \/ ToolCallReturn(r))
        /\ (oracle[r].ending = "repeat" /\ ChannelConfigured
            /\ loop_result[r].state # "none")
           => /\ oracle_calls[r] = 10
              /\ loop_result[r] = ReturnOf(TimeoutText, NamesOfRounds(oracle[r], 10))

C1_Witness ==
    /\ oracle[1].ending = "repeat"
    /\ oracle_calls[1] = 10
    /\ loop_result[1].state = "returned"
    /\ loop_result[1].text = TimeoutText
    /\ Len(loop_result[1].tools) = 30

\* C2: a requested tool that is not in the registry is answered by a "Tool ... not
\* found" result turn for that call; the loop goes back to reasoning with every call
\* of the round answered, and an oracle that then answers ends the loop with that
\* answer, not with an exception.
C2_UnknownToolNotFatal ==
    \A r \in Req :
        /\ \A n \in 1..oracle_calls[r] : \A k \in 1..Len(Requested(r, n)) :
              (Requested(r, n)[k].name \notin tool_map[r] /\ Answered(r, n, k))
              => \E i \in DOMAIN messages[r] :
                    messages[r][i] =
                        ToolMessage(Str("Tool {} not found", Requested(r, n)[k].name, "", 0),
                                    <<n, k>>)
        /\ BetweenRounds(r) => AllAnswered(r)
        /\ loop_result[r].state = "raised" => loop_result[r].error \in LoopFailures
        /\ (oracle[r].ending = "final" /\ ChannelConfigured
            /\ loop_result[r].state # "none")
           => loop_result[r].state = "returned"

C2_Witness ==
    /\ loop_result[1].state = "returned"
    /\ loop_result[1].text = Str("oracle answer of call {}", "", "", 2)
    /\ \E i \in DOMAIN messages[1] :
          messages[1][i] =
              ToolMessage(Str("Tool {} not found", "issue_store_credit", "", 0), <<1, 1>>)

\* C3: a tool of the registry whose invocation raises is answered by an "Error
\* calling tool" result turn for that call; the calls after it in the round are
\* still dispatched and answered, and the exception never leaves the loop or
\* handle_message.
C3_ToolFailureFolded ==
    \A r \in Req :
        /\ \A n \in 1..oracle_calls[r] : \A k \in 1..Len(Requested(r, n)) :
              (Requested(r, n)[k].name \in tool_map[r]
               /\ Requested(r, n)[k].env = "raise" /\ Answered(r, n, k))
              => \E i \in DOMAIN messages[r] :
                    messages[r][i] =
                        ToolMessage(Str("Error calling tool: {}", "tool invocation failed", "", 0),
                                    <<n, k>>)
        /\ BetweenRounds(r) => AllAnswered(r)
        /\ loop_result[r].state = "raised" => loop_result[r].error \in LoopFailures
        /\ hm_result[r].state = "raised"
           => hm_result[r].error \in
                 LoopFailures \cup {"Slack integration is not configured", "MCP session failed"}

C3_Witness ==
    /\ pc[1] = "reasoning"
    /\ Requested(1, 1) = <<EscalateCall("raise"), RefundPendingCall>>
    /\ \E i \in DOMAIN messages[1] :
          /\ messages[1][i] =
                ToolMessage(Str("Error calling tool: {}", "tool invocation failed", "", 0),
                            <<1, 1>>)
          /\ i < Len(messages[1])
          /\ messages[1][i + 1].type = "tool"
          /\ messages[1][i + 1].tool_call_id = <<1, 2>>
          /\ messages[1][i + 1].content.s1 = "PENDING_REVIEW"

\* C4: when the loop ends with the oracle's final answer it returns that text and
\* the names of all tool calls dispatched, in call order over all rounds, duplicates
\* kept: nothing dropped, reordered or added; handle_message and async_main hand on
\* the same pair.
C4_DoneReturnsAuditTrail ==
    \A r \in Req :
        /\ (loop_result[r].state = "returned" /\ loop_result[r].text # TimeoutText)
           => /\ OracleAnswer(oracle[r], oracle_calls[r]).kind = "final"
              /\ loop_result[r].text = OracleAnswer(oracle[r], oracle_calls[r]).content
              /\ loop_result[r].tools = NamesOfRounds(oracle[r], oracle_calls[r] - 1)
        /\ hm_result[r].state = "returned" => hm_result[r] = loop_result[r]
        /\ (pc[r] = "exited" /\ hm_result[r].state = "returned")
           => /\ stdout[r].text = loop_result[r].text
              /\ stdout[r].tools = loop_result[r].tools

C4_Witness ==
    /\ pc[1] = "exited"
    /\ stdout[1].text = Str("oracle answer of call {}", "", "", 3)
    /\ stdout[1].tools =
          <<"lookup_order", "issue_store_credit", "lookup_order", EscalationTool>>

\* C5 as claimed: no invocation of the loop ends with an exception for its caller,
\* handle_message: every failure ends as a tool result or as a returned text.
C5_CallerNeverGetsError ==
    \A r \in Req : loop_result[r].state # "raised"

\* C5 as amended: a failing tool call ends as a tool-result turn; the missing
\* channel id and a failing oracle call leave _run_agent_loop as exceptions, and
\* handle_message hands them (and the failures of load_all_tools) on; async_main is
\* where every one of them ends as the printed apology text, with exit status 1.
C5_MainPrintsApology ==
    \A r \in Req :
        /\ loop_result[r].state = "raised" => loop_result[r].error \in LoopFailures
        /\ (loop_result[r].state = "raised" /\ hm_result[r].state # "none")
           => hm_result[r] = loop_result[r]
        /\ pc[r] = "exited"
           => /\ stdout[r].exit \in {0, 1}
              /\ stdout[r].text # Lit("")
              /\ hm_result[r].state = "raised"
                 => stdout[r] = [text |-> Str(ApologyFmt, hm_result[r].error, "", 0),
                                 tools |-> <<>>, exit |-> 1]

C5_Witness ==
    /\ pc[1] = "exited"
    /\ oracle_calls[1] = 2
    /\ hm_result[1] = RaiseOf("oracle call failed")
    /\ stdout[1].exit = 1
    /\ stdout[1].text = Str(ApologyFmt, "oracle call failed", "", 0)

\* C6 as claimed: a loop that has not returned can always take its next step; in
\* particular an awaited tool call that never completes is ended by a timeout and
\* answered, so the loop goes on.
C6_StalledCallTimesOut ==
    \A r \in Req :
        pc[r] \in {"reasoning", "dispatching", "awaiting_tool"}
        => ENABLED (OracleCall(r) \/ LoopExhausted(r) \/ ToolCallStart(r)
                    \/ ToolCallReturn(r))

\* The tool-result turns of request r that carry a PENDING_REVIEW refund outcome.
PendingReviewTurns(r) ==
    {i \in DOMAIN messages[r] :
        /\ messages[r][i].type = "tool"
        /\ messages[r][i].content.fmt = "Refund Request Result: Status {} Order {} Amount {}"
        /\ messages[r][i].content.s1 = "PENDING_REVIEW"}

\* An oracle turn of request r after turn i requests the escalation tool.
EscalatedAfter(r, i) ==
    \E j \in DOMAIN messages[r] :
        /\ j > i
        /\ messages[r][j].type = "ai"
        /\ \E k \in DOMAIN messages[r][j].tool_calls :
              messages[r][j].tool_calls[k].name = EscalationTool

\* C7 as claimed: the loop never ends with the oracle's final answer while a
\* PENDING_REVIEW result of the transcript has no later escalation call.
C7_EscalationBeforeDone ==
    \A r \in Req :
        (loop_result[r].state = "returned" /\ loop_result[r].text # TimeoutText)
        => \A i \in PendingReviewTurns(r) : EscalatedAfter(r, i)

\* C7 as amended: the loop does not enforce the escalation; it gives the oracle
\* what the policy needs: the transcript starts with the system turn carrying the
\* configured channel id, and every PENDING_REVIEW decision of the rule engine is
\* in the transcript as a tool-result turn with its status, order and amount.
C7_PendingReviewReachesOracle ==
    /\ \A r \in Req :
          messages[r] # <<>>
          => ChannelConfigured /\ messages[r][1] = SystemMessage(env_channel_id)
    /\ \A i \in DOMAIN pending_approvals :
          \E r \in Req : \E j \in PendingReviewTurns(r) :
              /\ messages[r][j].content.s2 = pending_approvals[i].order_id
              /\ messages[r][j].content.n = pending_approvals[i].amount
    /\ Len(pending_approvals) =
          Cardinality(PendingReviewTurns(1)) + Cardinality(PendingReviewTurns(2))

C7_Witness ==
    /\ loop_result[1].state = "returned"
    /\ loop_result[1].text = Str("oracle answer of call {}", "", "", 2)
    /\ PendingReviewTurns(1) # {}
    /\ \A i \in PendingReviewTurns(1) : ~EscalatedAfter(1, i)
    /\ Len(pending_approvals) = 1

\* C8: without an escalation channel id (unset or empty) the loop refuses to
\* start: _run_agent_loop raises before the transcript exists, no oracle call is
\* made, no tool is dispatched, no refund decision is taken, nothing is returned.
C8_NoChannelNoStart ==
    ~ChannelConfigured
    => /\ pending_approvals = <<>>
       /\ \A r \in Req :
             /\ oracle_calls[r] = 0
             /\ called_tools[r] = <<>>
             /\ messages[r] = <<>>
             /\ pc[r] \notin {"reasoning", "dispatching", "awaiting_tool"}
             /\ loop_result[r].state # "returned"
             /\ hm_result[r].state # "returned"
             /\ pc[r] = "loop_done"
                => loop_result[r] = RaiseOf("Slack integration is not configured")

C8_Witness ==
    /\ env_channel_id = ""
    /\ env_slack_creds
    /\ pc[1] = "exited"
    /\ loop_result[1] = RaiseOf("Slack integration is not configured")
    /\ oracle_calls[1] = 0
    /\ stdout[1].exit = 1

\* C9 as claimed: concurrent requests share no mutable state but the lookup store:
\* the pending-approval list a request's refund decisions write never holds the
\* records of another request.
C9_RequestsShareNothing ==
    \A i, j \in DOMAIN pending_approvals :
        pending_approvals[i].order_id = pending_approvals[j].order_id

\* C10: a damaged-item request with order_total >= 0 and days_since_delivery >= 0
\* is APPROVED for every tier, also past the refund window and above 1000 dollars,
\* and appends no PendingApproval record.
C10_DamagedAlwaysApproved ==
    (refund_call.n > 0 /\ refund_call.via = "engine" /\ refund_call.args.is_damaged
     /\ refund_call.args.order_total >= 0 /\ refund_call.args.days_since_delivery >= 0)
    => /\ refund_call.outcome.raised = ""
       /\ refund_call.outcome.value = "APPROVED"
       /\ refund_call.outcome.pending_approvals = refund_call.before
       /\ pending_approvals = refund_call.before

C10_Witness ==
    /\ refund_call.n > 0 /\ refund_call.via = "engine"
    /\ refund_call.args.is_damaged
    /\ refund_call.args.customer_tier = "STANDARD"
    /\ refund_call.args.days_since_delivery = 31
    /\ refund_call.args.order_total = 100000000
    /\ refund_call.outcome.value = "APPROVED"
    /\ Len(refund_call.before) = 1
    /\ pending_approvals = refund_call.before

\* The refund window the specification gives a tier, in days.
WindowOfTier(tier) ==
    CASE tier = "STANDARD" -> 30 [] tier = "GOLD" -> 60 [] tier = "PLATINUM" -> 90

\* C11: a non-damaged request with order_total >= 0 and days_since_delivery >= 0 is
\* DENIED exactly when days_since_delivery is greater than the tier's window (30
\* STANDARD, 60 GOLD, 90 PLATINUM), which is what get_refund_window_for_tier
\* returns; at exactly the window it is not denied, whatever the order_total.
C11_DeniedIffPastWindow ==
    (refund_call.n > 0 /\ refund_call.via = "engine" /\ ~refund_call.args.is_damaged
     /\ refund_call.args.order_total >= 0 /\ refund_call.args.days_since_delivery >= 0)
    => /\ refund_call.outcome.raised = ""
       /\ get_refund_window_for_tier(refund_call.args.customer_tier)
             = WindowOfTier(refund_call.args.customer_tier)
       /\ (refund_call.outcome.value = "DENIED")
             <=> (refund_call.args.days_since_delivery
                    > get_refund_window_for_tier(refund_call.args.customer_tier))

\* A GOLD request of a million dollars on day 60 is not denied.
C11_Witness ==
    /\ refund_call.n > 0 /\ refund_call.via = "engine"
    /\ ~refund_call.args.is_damaged
    /\ refund_call.args.customer_tier = "GOLD"
    /\ refund_call.args.days_since_delivery = GOLD_REFUND_WINDOW_DAYS
    /\ refund_call.args.order_total = 100000000
    /\ refund_call.outcome.value = "PENDING_REVIEW"

\* The approval a refund of this amount (in cents) needs by the specification: none
\* up to 200 dollars, a manager's up to 1000 dollars, an executive's above.
ApprovalLevelOf(order_total) ==
    IF order_total <= 20000 THEN "none"
    ELSE IF order_total <= 100000 THEN "manager" ELSE "executive"

\* C12: a non-damaged request inside the refund window is APPROVED when
\* order_total <= 200; it is PENDING_REVIEW with a PendingApproval record of level
\* "manager" when 200 < order_total <= 1000 and of level "executive" when
\* order_total > 1000; 200 and 1000 belong to the lower band.
C12_AmountBands ==
    (refund_call.n > 0 /\ refund_call.via = "engine" /\ ~refund_call.args.is_damaged
     /\ refund_call.args.order_total >= 0 /\ refund_call.args.days_since_delivery >= 0
     /\ refund_call.args.days_since_delivery <= WindowOfTier(refund_call.args.customer_tier))
    => /\ refund_call.outcome.raised = ""
       /\ IF ApprovalLevelOf(refund_call.args.order_total) = "none"
          THEN /\ refund_call.outcome.value = "APPROVED"
               /\ pending_approvals = refund_call.before
          ELSE /\ refund_call.outcome.value = "PENDING_REVIEW"
               /\ pending_approvals =
                     Append(refund_call.before,
                            [order_id |-> refund_call.args.order_id,
                             amount |-> refund_call.args.order_total,
                             approval_level |->
                                 ApprovalLevelOf(refund_call.args.order_total)])

\* A STANDARD request of exactly 1000 dollars on day 30 waits for a manager.
C12_Witness ==
    /\ refund_call.n > 0 /\ refund_call.via = "engine"
    /\ ~refund_call.args.is_damaged
    /\ refund_call.args.customer_tier = "STANDARD"
    /\ refund_call.args.days_since_delivery = 30
    /\ refund_call.args.order_total = 100000
    /\ refund_call.outcome.value = "PENDING_REVIEW"
    /\ Len(pending_approvals) = 1
    /\ pending_approvals[1].approval_level = "manager"

\* The message of the ValueError the arguments of the latest call ask for.
RejectionOf(args) ==
    IF args.order_total < 0 THEN "Order total must be non-negative"
    ELSE "Days since delivery must be non-negative"

\* C13: a request with order_total < 0 or days_since_delivery < 0 is rejected, for
\* every tier and also when is_damaged is true: the engine raises and returns no
\* decision, the pending-approval list stays as it was, and through the tool
\* process_refund_request the rejection is an error text the tool returns, not an
\* exception.
C13_NegativeInputsRejected ==
    (refund_call.n > 0
     /\ (refund_call.args.order_total < 0 \/ refund_call.args.days_since_delivery < 0))
    => /\ pending_approvals = refund_call.before
       /\ refund_call.outcome.pending_approvals = refund_call.before
       /\ IF refund_call.via = "engine"
          THEN /\ refund_call.outcome.raised = RejectionOf(refund_call.args)
               /\ refund_call.outcome.value \notin RefundStatus
          ELSE /\ refund_call.outcome.raised = ""
               /\ refund_call.outcome.text =
                     Str("Error processing refund: {}", RejectionOf(refund_call.args),
                         "", 0)

\* A damaged-item request with a negative day count made through the tool, with a
\* record already pending.
C13_Witness ==
    /\ refund_call.n > 0 /\ refund_call.via = "tool"
    /\ refund_call.args.is_damaged
    /\ refund_call.args.customer_tier = "PLATINUM"
    /\ refund_call.args.order_total = 50000
    /\ refund_call.args.days_since_delivery = -1
    /\ refund_call.outcome.text.fmt = "Error processing refund: {}"
    /\ Len(pending_approvals) = 1

\* The tier a customer_tier string names.
TierNamed(customer_tier) ==
    CASE customer_tier \in {"platinum", "PLATINUM"} -> "PLATINUM"
      [] customer_tier \in {"gold", "GOLD"} -> "GOLD"
      [] customer_tier \in {"standard", "STANDARD"} -> "STANDARD"

\* The shipping cost of the specification, in cents: the first rule that matches.
ShippingCostOf(order_total, speed, tier) ==
    IF order_total >= 5000 /\ speed = "STANDARD" THEN 0
    ELSE IF tier = "PLATINUM" THEN 0
    ELSE IF tier = "GOLD" /\ speed \in {"STANDARD", "EXPEDITED"} THEN 0
    ELSE CASE speed = "STANDARD" -> 599 [] speed = "EXPEDITED" -> 1299
           [] speed = "EXPRESS" -> 2499

\* C14: for order_total >= 0 get_shipping_cost returns the result of the first
\* matching rule: 0 for an order of 50 dollars or more with STANDARD speed; 0 for
\* PLATINUM at any speed and for GOLD with STANDARD and EXPEDITED; else the flat
\* rate 5.99, 12.99 or 24.99 of the speed.  A negative order_total is rejected.
C14_ShippingCostRules ==
    (direct_call.n > 0 /\ direct_call.name = "OrderManager.get_shipping_cost")
    => IF direct_call.args.order_total < 0
       THEN direct_call.outcome = OrderRaised("Order total cannot be negative")
       ELSE direct_call.outcome =
                OrderReturned(ShippingCostOf(direct_call.args.order_total,
                                             direct_call.args.shipping_speed,
                                             TierNamed(direct_call.args.customer_tier)))

\* A GOLD customer pays 24.99 for EXPRESS shipping of an order of 50 dollars.
C14_Witness ==
    /\ direct_call.n > 0 /\ direct_call.name = "OrderManager.get_shipping_cost"
    /\ direct_call.args.customer_tier = "GOLD"
    /\ direct_call.args.shipping_speed = "EXPRESS"
    /\ direct_call.args.order_total = 5000
    /\ direct_call.outcome = OrderReturned(2499)

\* C15: can_cancel_order is true exactly for PENDING and PROCESSING, can_modify_order
\* is true exactly for PENDING, so every status that can be modified can be
\* cancelled.
C15_CancelAndModify ==
    /\ (direct_call.n > 0 /\ direct_call.name = "OrderManager.can_cancel_order")
       => direct_call.outcome =
              OrderReturned(direct_call.args.order_status \in {"PENDING", "PROCESSING"})
    /\ (direct_call.n > 0 /\ direct_call.name = "OrderManager.can_modify_order")
       => /\ direct_call.outcome =
                 OrderReturned(direct_call.args.order_status = "PENDING")
          /\ direct_call.outcome.value
                 => can_cancel_order(direct_call.args.order_status).value

\* PROCESSING can be cancelled; asked next, it cannot be modified.
C15_Witness ==
    /\ direct_call.n = 2 /\ direct_call.name = "OrderManager.can_modify_order"
    /\ direct_call.args.order_status = "PROCESSING"
    /\ direct_call.outcome = OrderReturned(FALSE)

\* The turns the first n answers of an oracle call for: per answer that requests
\* tool calls the assistant turn, then one tool-result turn per call, in request
\* order, under the call's id.
RECURSIVE TurnsOfRounds(_, _)
TurnsOfRounds(o, n) ==
    IF n = 0 THEN <<>>
    ELSE LET tc == OracleAnswer(o, n).tool_calls
         IN  TurnsOfRounds(o, n - 1)
             \o (IF tc = <<>> THEN <<>> ELSE <<[type |-> "ai", id |-> <<n, 0>>]>>)
             \o [k \in 1..Len(tc) |-> [type |-> "tool", id |-> <<n, k>>]]

\* The turns of the transcript of request r after the system and the human turn.
TurnsOf(r) ==
    [i \in 1..(Len(messages[r]) - 2) |->
        LET msg == messages[r][i + 2]
        IN  IF msg.type = "tool" THEN [type |-> "tool", id |-> msg.tool_call_id]
            ELSE IF msg.type = "ai"
            THEN [type |-> "ai", id |-> <<msg.tool_calls[1].id[1], 0>>]
            ELSE [type |-> msg.type, id |-> <<0, 0>>]]

\* The calls of the round under way in request r that are not answered yet.
OpenCalls(r) ==
    IF pc[r] \in {"dispatching", "awaiting_tool"}
    THEN Len(tool_calls[r]) - call_idx[r] + 1 ELSE 0

\* C16: in every dispatch round the transcript gets exactly one tool-result turn
\* per requested call, in request order, each under its own call id, before the
\* next oracle call: no call is skipped or answered twice, whether it succeeded,
\* named a tool that is not registered, or failed.
C16_OneResultPerCall ==
    \A r \in Req :
        messages[r] # <<>>
        => LET turns == TurnsOfRounds(oracle[r], oracle_calls[r])
           IN  TurnsOf(r) = SubSeq(turns, 1, Len(turns) - OpenCalls(r))

\* Two rounds of three calls each (a failing lookup, an unregistered tool, a lookup
\* that succeeds) have been answered and the third oracle call is next.
C16_Witness ==
    /\ pc[1] = "reasoning" /\ iteration[1] = 2 /\ oracle_calls[1] = 2
    /\ Requested(1, 1) = <<LookupCall("raise"), UnknownCall, LookupCall("ok")>>
    /\ Requested(1, 2) = Requested(1, 1)
    /\ Len(messages[1]) = 10
    /\ messages[1][8].content.fmt = "Error calling tool: {}"
    /\ messages[1][9].content.fmt = "Tool {} not found"
    /\ messages[1][10].content.fmt = "Order Details: ID {} Status {} Amount {}"
    /\ messages[1][10].tool_call_id = <<2, 3>>

\* The latest call came back as PENDING_REVIEW.
LatestIsPendingReview ==
    /\ refund_call.outcome.raised = ""
    /\ IF refund_call.via = "engine"
       THEN refund_call.outcome.value = "PENDING_REVIEW"
       ELSE refund_call.outcome.text.s1 = "PENDING_REVIEW"

\* C17: after any sequence of process_refund_request calls on one processor,
\* pending_approvals holds exactly one record per call that returned
\* PENDING_REVIEW, in call order, with that call's order_id and amount; a call that
\* returns PENDING_REVIEW appends its record, every other call (APPROVED, DENIED,
\* rejected) leaves the list as it was, and no record is removed or changed.
C17_PendingApprovalsAppendOnly ==
    /\ Len(pending_approvals) = Len(refund_call.reviews)
    /\ \A i \in DOMAIN pending_approvals :
          /\ pending_approvals[i].order_id = refund_call.reviews[i].order_id
          /\ pending_approvals[i].amount = refund_call.reviews[i].amount
          /\ pending_approvals[i].approval_level \in {"manager", "executive"}
    /\ refund_call.n > 0
       => IF LatestIsPendingReview
          THEN /\ Len(pending_approvals) = Len(refund_call.before) + 1
               /\ SubSeq(pending_approvals, 1, Len(refund_call.before))
                     = refund_call.before
          ELSE pending_approvals = refund_call.before

\* Two calls waited for a manager, the first for ORD-002 and the second for
\* ORD-001 through the tool: the list holds ORD-002, then ORD-001.
C17_Witness ==
    /\ refund_call.n = 2 /\ refund_call.via = "tool"
    /\ Len(pending_approvals) = 2
    /\ pending_approvals[1].order_id = "ORD-002"
    /\ pending_approvals[1].amount = 20001
    /\ pending_approvals[2].order_id = "ORD-001"
    /\ pending_approvals[2].amount = 50000

\* The latest direct call is a call of one of the six tools that take a tier, an
\* order status or a shipping speed as a string.
CoercingTools ==
    {"process_refund_request", "get_refund_window", "calculate_shipping_cost",
     "check_can_cancel_order", "check_can_modify_order", "get_delivery_estimate"}

\* An argument of the latest direct call is a string that names no tier, no order
\* status or no shipping speed.
UnrecognisedName ==
    \/ /\ "customer_tier" \in DOMAIN direct_call.args
       /\ direct_call.args.customer_tier
             \notin {"standard", "Gold", "PLATINUM"}
    \/ /\ "order_status" \in DOMAIN direct_call.args
       /\ direct_call.args.order_status
             \notin {"pending", "Processing", "SHIPPED", "delivered", "cancelled"}
    \/ /\ "shipping_speed" \in DOMAIN direct_call.args
       /\ direct_call.args.shipping_speed \notin {"standard", "Expedited", "EXPRESS"}

\* The texts with which a tool reports that it rejected its input.
RejectionTexts ==
    {"Invalid shipping speed: '{}'. Valid options are: {}",
     "Error processing refund: {}", "Error calculating shipping: {}"}

\* C18 as claimed: a tier, order-status or shipping-speed string that is not a
\* recognised name is rejected by the tool with an error result; the rule engine
\* is not called with a default put in its place.
C18_UnrecognisedNamesRejected ==
    (direct_call.n > 0 /\ direct_call.name \in CoercingTools /\ UnrecognisedName)
    => direct_call.outcome.text.fmt \in RejectionTexts

====
